---- MODULE Spec2Model ----
(***************************************************************************)
(* M2/Macaulay2/c/compat.h as the preprocessor reads it.                   *)
(*                                                                         *)
(* The header is a straight-line program of directives.  Its input is the  *)
(* macro table on entry (what the build configuration and the compiler     *)
(* have defined before the header is reached), its state is the macro      *)
(* table, the list of headers included so far, the set of macros its own   *)
(* #define directives have set and the objects it has declared.  pc is the *)
(* source line of the next directive to be processed.                      *)
(*                                                                         *)
(* A macro table maps a name to <<>> (undefined) or <<v>> (defined, with   *)
(* a replacement list that evaluates to the integer v).                    *)
(***************************************************************************)
EXTENDS Integers, Sequences, FiniteSets, TLC

VARIABLES pc, entry, macros, included, defined, decls

vars == <<pc, entry, macros, included, defined, decls>>

\* Largest value a TRUE or FALSE defined before the header may have.
MaxPredef == 1

\* Line after the last directive (#endif on line 82).
Done == 83

(***************************************************************************)
(* Names                                                                   *)
(***************************************************************************)

\* Macros the header tests but never defines.
Flags ==
  { "NO_CONFIG", "__STDC__", "__ppc__", "__MACH__",
    "HAVE_UNISTD_H", "HAVE_SYSTYPES_H", "HAVE_TYPES_H", "HAVE_SYS_STAT_H",
    "HAVE_STDLIB_H", "HAVE_STRING_H", "HAVE_MEMORY_H" }

\* Macros the header defines.
Owned == { "TRUE", "FALSE", "OKAY", "ERROR", "__DARWIN__" }

MacroNames == Flags \cup Owned

\* Every header named by an #include directive of compat.h.
Headers ==
  { "gc/gc.h", "unistd.h", "sys/types.h", "types.h", "sys/stat.h",
    "stdlib.h", "string.h", "ctype.h", "memory.h", "stdio.h", "fcntl.h",
    "stdarg.h", "varargs.h" }

\* extern char NAME[];  an object of type array of char, of unknown bound.
ExternCharArray(name) ==
  [name |-> name, storage |-> "extern", element |-> "char", declarator |-> "array"]

(***************************************************************************)
(* Macro tables on entry                                                   *)
(***************************************************************************)

PredefOpt == { <<>> } \cup { <<v>> : v \in 0..MaxPredef }

\* The flags in S are defined (as 1), TRUE and FALSE are as given, and the
\* macros only compat.h defines (OKAY, ERROR, __DARWIN__) are undefined.
Config(S, t, f) ==
  [m \in MacroNames |->
     IF m \in S THEN <<1>>
     ELSE IF m = "TRUE" THEN t
     ELSE IF m = "FALSE" THEN f
     ELSE <<>>]

Configs == { Config(S, t, f) : S \in SUBSET Flags, t \in PredefOpt, f \in PredefOpt }

\* The translation unit when the header is reached with macro table c.
InitTU(c) ==
  [pc |-> 4, macros |-> c, included |-> <<>>, defined |-> {}, decls |-> {}]

(***************************************************************************)
(* Directives                                                              *)
(***************************************************************************)

IsDefined(s, m) == s.macros[m] # <<>>

Define(s, m, v, next) ==
  [s EXCEPT !.macros[m] = <<v>>, !.defined = @ \cup {m}, !.pc = next]

Include(s, h, next) ==
  [s EXCEPT !.included = Append(@, h), !.pc = next]

Skip(s, next) == [s EXCEPT !.pc = next]

\* #ifdef m / #include <h> / #endif
IfdefInclude_unguarded(s, m, h, next) == Include(s, h, next)

IfdefInclude(s, m, h, next) ==
  IF IsDefined(s, m) THEN Include(s, h, next) ELSE Skip(s, next)

\* lines 4-6
DeclareExterns_pointer(s) ==
  [s EXCEPT !.decls = @ \cup { ExternCharArray("posfmt"), ExternCharArray("errfmt"),
                               [ExternCharArray("errfmtnc") EXCEPT !.declarator = "pointer"] },
            !.pc = 8]

DeclareExterns(s) ==
  [s EXCEPT !.decls = @ \cup { ExternCharArray("posfmt"), ExternCharArray("errfmt"),
                               ExternCharArray("errfmtnc") },
            !.pc = 8]

\* lines 8-10
DefaultTRUE(s) ==
  IF ~IsDefined(s, "TRUE") THEN Define(s, "TRUE", 1, 12) ELSE Skip(s, 12)

\* lines 12-14
DefaultFALSE_guardTRUE(s) ==
  IF ~IsDefined(s, "TRUE") THEN Define(s, "FALSE", 0, 16) ELSE Skip(s, 16)

DefaultFALSE(s) ==
  IF ~IsDefined(s, "FALSE") THEN Define(s, "FALSE", 0, 16) ELSE Skip(s, 16)

\* line 16
DefineOKAY(s) == Define(s, "OKAY", 0, 18)

\* line 18
DefineERROR_positive(s) == Define(s, "ERROR", 1, 20)

DefineERROR(s) == Define(s, "ERROR", -1, 20)

\* lines 20-23
DefineDARWIN_or(s) ==
  IF IsDefined(s, "__ppc__") \/ IsDefined(s, "__MACH__")
  THEN Define(s, "__DARWIN__", 1, 25)
  ELSE Skip(s, 25)

DefineDARWIN(s) ==
  IF IsDefined(s, "__ppc__") /\ IsDefined(s, "__MACH__")
  THEN Define(s, "__DARWIN__", 1, 25)
  ELSE Skip(s, 25)

\* line 25
IncludeGC_guarded(s) == IfdefInclude(s, "NO_CONFIG", "gc/gc.h", 27)

IncludeGC(s) == Include(s, "gc/gc.h", 27)

\* line 27: #ifndef NO_CONFIG selects lines 29-66, its #else lines 70-79
IfndefNO_CONFIG(s) ==
  IF ~IsDefined(s, "NO_CONFIG") THEN Skip(s, 29) ELSE Skip(s, 70)

\* lines 29-66, the configured branch
CfgUnistd(s)   == IfdefInclude(s, "HAVE_UNISTD_H", "unistd.h", 33)
CfgSysTypes(s) == IfdefInclude(s, "HAVE_SYSTYPES_H", "sys/types.h", 37)
CfgTypes(s)    == IfdefInclude(s, "HAVE_TYPES_H", "types.h", 41)
CfgSysStat(s)  == IfdefInclude(s, "HAVE_SYS_STAT_H", "sys/stat.h", 45)
CfgStdlib(s)   == IfdefInclude(s, "HAVE_STDLIB_H", "stdlib.h", 49)
CfgString(s)   == IfdefInclude(s, "HAVE_STRING_H", "string.h", 53)
CfgCtype(s)    == Include(s, "ctype.h", 55)
CfgMemory(s)   == IfdefInclude(s, "HAVE_MEMORY_H", "memory.h", 59)
CfgStdio(s)    == Include(s, "stdio.h", 60)
CfgFcntl(s)    == Include(s, "fcntl.h", 62)

\* lines 62-66
CfgStdarg_both(s) ==
  IF IsDefined(s, "__STDC__")
  THEN Include(s, "stdarg.h", Done)
  ELSE Include(Include(s, "stdarg.h", Done), "varargs.h", Done)

CfgStdarg(s) ==
  IF IsDefined(s, "__STDC__")
  THEN Include(s, "stdarg.h", Done)
  ELSE Include(s, "varargs.h", Done)

\* lines 70-79, the NO_CONFIG branch
NoCfgUnistd(s)   == Include(s, "unistd.h", 71)
NoCfgSysTypes(s) == Include(s, "sys/types.h", 72)
NoCfgSysStat(s)  == Include(s, "sys/stat.h", 73)
NoCfgStdlib(s)   == Include(s, "stdlib.h", 74)
NoCfgString_omitted(s) == Skip(s, 75)

NoCfgString(s)   == Include(s, "string.h", 75)

NoCfgMemory_types(s) == Include(s, "types.h", 76)

NoCfgMemory(s)   == Include(s, "memory.h", 76)
NoCfgCtype(s)    == Include(s, "ctype.h", 77)
NoCfgStdio(s)    == Include(s, "stdio.h", 78)
NoCfgFcntl(s)    == Include(s, "fcntl.h", 79)
NoCfgStdarg(s)   == Include(s, "stdarg.h", Done)

(***************************************************************************)
(* The header read from top to bottom                                      *)
(***************************************************************************)

\* The directive at line s.pc, applied.
Step(s) ==
  CASE s.pc = 4  -> DeclareExterns(s)
    [] s.pc = 8  -> DefaultTRUE(s)
    [] s.pc = 12 -> DefaultFALSE(s)
    [] s.pc = 16 -> DefineOKAY(s)
    [] s.pc = 18 -> DefineERROR(s)
    [] s.pc = 20 -> DefineDARWIN(s)
    [] s.pc = 25 -> IncludeGC(s)
    [] s.pc = 27 -> IfndefNO_CONFIG(s)
    [] s.pc = 29 -> CfgUnistd(s)
    [] s.pc = 33 -> CfgSysTypes(s)
    [] s.pc = 37 -> CfgTypes(s)
    [] s.pc = 41 -> CfgSysStat(s)
    [] s.pc = 45 -> CfgStdlib(s)
    [] s.pc = 49 -> CfgString(s)
    [] s.pc = 53 -> CfgCtype(s)
    [] s.pc = 55 -> CfgMemory(s)
    [] s.pc = 59 -> CfgStdio(s)
    [] s.pc = 60 -> CfgFcntl(s)
    [] s.pc = 62 -> CfgStdarg(s)
    [] s.pc = 70 -> NoCfgUnistd(s)
    [] s.pc = 71 -> NoCfgSysTypes(s)
    [] s.pc = 72 -> NoCfgSysStat(s)
    [] s.pc = 73 -> NoCfgStdlib(s)
    [] s.pc = 74 -> NoCfgString(s)
    [] s.pc = 75 -> NoCfgMemory(s)
    [] s.pc = 76 -> NoCfgCtype(s)
    [] s.pc = 77 -> NoCfgStdio(s)
    [] s.pc = 78 -> NoCfgFcntl(s)
    [] s.pc = 79 -> NoCfgStdarg(s)

RECURSIVE Exec(_)
Exec(s) == IF s.pc = Done THEN s ELSE Exec(Step(s))

\* The translation unit after the whole header, entered with macro table c.
Run(c) == Exec(InitTU(c))

HeaderSet(seq) == { seq[i] : i \in 1..Len(seq) }

(***************************************************************************)
(* State machine                                                           *)
(***************************************************************************)

Cur ==
  [pc |-> pc, macros |-> macros, included |-> included,
   defined |-> defined, decls |-> decls]

Becomes(s) ==
  /\ pc' = s.pc
  /\ macros' = s.macros
  /\ included' = s.included
  /\ defined' = s.defined
  /\ decls' = s.decls
  /\ UNCHANGED entry

Init ==
  /\ entry \in Configs
  /\ pc = InitTU(entry).pc
  /\ macros = InitTU(entry).macros
  /\ included = InitTU(entry).included
  /\ defined = InitTU(entry).defined
  /\ decls = InitTU(entry).decls

Line04 == pc = 4  /\ Becomes(DeclareExterns(Cur))
Line08 == pc = 8  /\ Becomes(DefaultTRUE(Cur))
Line12 == pc = 12 /\ Becomes(DefaultFALSE(Cur))
Line16 == pc = 16 /\ Becomes(DefineOKAY(Cur))
Line18 == pc = 18 /\ Becomes(DefineERROR(Cur))
Line20 == pc = 20 /\ Becomes(DefineDARWIN(Cur))
Line25 == pc = 25 /\ Becomes(IncludeGC(Cur))
Line27 == pc = 27 /\ Becomes(IfndefNO_CONFIG(Cur))
Line29 == pc = 29 /\ Becomes(CfgUnistd(Cur))
Line33 == pc = 33 /\ Becomes(CfgSysTypes(Cur))
Line37 == pc = 37 /\ Becomes(CfgTypes(Cur))
Line41 == pc = 41 /\ Becomes(CfgSysStat(Cur))
Line45 == pc = 45 /\ Becomes(CfgStdlib(Cur))
Line49 == pc = 49 /\ Becomes(CfgString(Cur))
Line53 == pc = 53 /\ Becomes(CfgCtype(Cur))
Line55 == pc = 55 /\ Becomes(CfgMemory(Cur))
Line59 == pc = 59 /\ Becomes(CfgStdio(Cur))
Line60 == pc = 60 /\ Becomes(CfgFcntl(Cur))
Line62 == pc = 62 /\ Becomes(CfgStdarg(Cur))
Line70 == pc = 70 /\ Becomes(NoCfgUnistd(Cur))
Line71 == pc = 71 /\ Becomes(NoCfgSysTypes(Cur))
Line72 == pc = 72 /\ Becomes(NoCfgSysStat(Cur))
Line73 == pc = 73 /\ Becomes(NoCfgStdlib(Cur))
Line74 == pc = 74 /\ Becomes(NoCfgString(Cur))
Line75 == pc = 75 /\ Becomes(NoCfgMemory(Cur))
Line76 == pc = 76 /\ Becomes(NoCfgCtype(Cur))
Line77 == pc = 77 /\ Becomes(NoCfgStdio(Cur))
Line78 == pc = 78 /\ Becomes(NoCfgFcntl(Cur))
Line79 == pc = 79 /\ Becomes(NoCfgStdarg(Cur))

Next ==
  \/ Line04 \/ Line08 \/ Line12 \/ Line16 \/ Line18 \/ Line20 \/ Line25
  \/ Line27
  \/ Line29 \/ Line33 \/ Line37 \/ Line41 \/ Line45 \/ Line49 \/ Line53
  \/ Line55 \/ Line59 \/ Line60 \/ Line62
  \/ Line70 \/ Line71 \/ Line72 \/ Line73 \/ Line74 \/ Line75 \/ Line76
  \/ Line77 \/ Line78 \/ Line79

Spec == Init /\ [][Next]_vars

TypeOK ==
  /\ pc \in 4..Done
  /\ entry \in Configs
  /\ DOMAIN macros = MacroNames
  /\ HeaderSet(included) \subseteq Headers
  /\ defined \subseteq Owned

(***************************************************************************)
(* Properties                                                              *)
(***************************************************************************)

OnEntry(m) == entry[m] # <<>>

Has(h) == h \in HeaderSet(included)

\* C1: in every build configuration, once the header has been processed
\* OKAY is 0 and ERROR is -1, so the two sentinels are distinct and neither
\* depends on the configuration.
C1_Sentinels ==
  pc = Done =>
    /\ macros["OKAY"] = <<0>>
    /\ macros["ERROR"] = <<-1>>
    /\ macros["OKAY"] # macros["ERROR"]
    /\ {"OKAY", "ERROR"} \subseteq defined

C1_Witness ==
  /\ pc = Done
  /\ OnEntry("NO_CONFIG") /\ OnEntry("__ppc__") /\ ~OnEntry("HAVE_STDLIB_H")
  /\ entry["TRUE"] = <<0>>
  /\ macros["ERROR"] = <<-1>>

\* C4: compat.h defines __DARWIN__ (as 1) exactly when both __ppc__ and
\* __MACH__ are defined on entry; otherwise it leaves __DARWIN__ undefined,
\* whatever NO_CONFIG and the HAVE_* macros are.
C4_Darwin ==
  pc = Done =>
    /\ ("__DARWIN__" \in defined) <=> (OnEntry("__ppc__") /\ OnEntry("__MACH__"))
    /\ (OnEntry("__ppc__") /\ OnEntry("__MACH__")) => macros["__DARWIN__"] = <<1>>
    /\ ~(OnEntry("__ppc__") /\ OnEntry("__MACH__")) => macros["__DARWIN__"] = <<>>

C4_Witness ==
  /\ pc = Done
  /\ OnEntry("__ppc__") /\ OnEntry("__MACH__") /\ OnEntry("NO_CONFIG")
  /\ macros["__DARWIN__"] = <<1>>

\* C5: after the header TRUE and FALSE are always defined; one that was
\* undefined on entry gets its default (TRUE 1, FALSE 0), one that was
\* defined on entry keeps its definition and is not redefined; each guard
\* looks at its own macro only.
C5_Booleans ==
  pc = Done =>
    /\ macros["TRUE"] # <<>> /\ macros["FALSE"] # <<>>
    /\ ~OnEntry("TRUE") => (macros["TRUE"] = <<1>> /\ "TRUE" \in defined)
    /\ OnEntry("TRUE") => (macros["TRUE"] = entry["TRUE"] /\ "TRUE" \notin defined)
    /\ ~OnEntry("FALSE") => (macros["FALSE"] = <<0>> /\ "FALSE" \in defined)
    /\ OnEntry("FALSE") => (macros["FALSE"] = entry["FALSE"] /\ "FALSE" \notin defined)

C5_Witness ==
  /\ pc = Done
  /\ entry["TRUE"] = <<0>> /\ macros["TRUE"] = <<0>>
  /\ ~OnEntry("FALSE") /\ macros["FALSE"] = <<0>> /\ "FALSE" \in defined

DeclNames == { "posfmt", "errfmt", "errfmtnc" }

DeclaredAs(n, declarator) ==
  \E d \in decls :
    /\ d.name = n /\ d.storage = "extern" /\ d.element = "char"
    /\ d.declarator = declarator

\* C6 as stated: in every build configuration posfmt, errfmt and errfmtnc
\* are declared as extern objects of type pointer to char.
C6_Original ==
  pc = Done => \A n \in DeclNames : DeclaredAs(n, "pointer")

\* C6: in every build configuration posfmt, errfmt and errfmtnc are
\* declared as extern arrays of char of unspecified length, each exactly
\* once, and nothing else is declared.
C6_Externs ==
  pc = Done =>
    /\ \A n \in DeclNames : DeclaredAs(n, "array")
    /\ \A d \in decls : d.name \in DeclNames /\ d.declarator = "array"
    /\ Cardinality(decls) = 3

C6_Witness ==
  /\ pc = Done
  /\ DeclaredAs("errfmtnc", "array")
  /\ OnEntry("NO_CONFIG") /\ ~OnEntry("__STDC__")

VarArgHeaders == { "stdarg.h", "varargs.h" }

\* C7: in every build configuration exactly one of stdarg.h and varargs.h
\* is included: without NO_CONFIG, stdarg.h iff __STDC__ is defined and
\* varargs.h otherwise; with NO_CONFIG, always stdarg.h and never varargs.h.
C7_OneVarArgHeader ==
  pc = Done =>
    /\ Cardinality({ i \in 1..Len(included) : included[i] \in VarArgHeaders }) = 1
    /\ Has("stdarg.h") # Has("varargs.h")
    /\ ~OnEntry("NO_CONFIG") => (Has("stdarg.h") <=> OnEntry("__STDC__"))
    /\ OnEntry("NO_CONFIG") => (Has("stdarg.h") /\ ~Has("varargs.h"))

C7_Witness ==
  /\ pc = Done
  /\ ~OnEntry("NO_CONFIG") /\ ~OnEntry("__STDC__")
  /\ Has("varargs.h") /\ ~Has("stdarg.h")

NoConfigHeaders ==
  { "gc/gc.h", "unistd.h", "sys/types.h", "sys/stat.h", "stdlib.h", "string.h",
    "memory.h", "ctype.h", "stdio.h", "fcntl.h", "stdarg.h" }

\* C8: with NO_CONFIG defined the headers included are exactly gc/gc.h,
\* unistd.h, sys/types.h, sys/stat.h, stdlib.h, string.h, memory.h, ctype.h,
\* stdio.h, fcntl.h and stdarg.h, each once, whatever the HAVE_* macros and
\* __STDC__ are; types.h is never among them.
C8_NoConfigHeaders ==
  (pc = Done /\ OnEntry("NO_CONFIG")) =>
    /\ HeaderSet(included) = NoConfigHeaders
    /\ Len(included) = Cardinality(NoConfigHeaders)
    /\ ~Has("types.h")

C8_Witness ==
  /\ pc = Done
  /\ OnEntry("NO_CONFIG") /\ OnEntry("HAVE_TYPES_H")
  /\ ~OnEntry("HAVE_UNISTD_H") /\ ~OnEntry("__STDC__")
  /\ Has("unistd.h") /\ Has("stdarg.h")

\* The macro each feature-guarded header of lines 29-57 is guarded by.
FeatureMacros ==
  { "HAVE_UNISTD_H", "HAVE_SYSTYPES_H", "HAVE_TYPES_H", "HAVE_SYS_STAT_H",
    "HAVE_STDLIB_H", "HAVE_STRING_H", "HAVE_MEMORY_H" }

FeatureHeader(m) ==
  CASE m = "HAVE_UNISTD_H"   -> "unistd.h"
    [] m = "HAVE_SYSTYPES_H" -> "sys/types.h"
    [] m = "HAVE_TYPES_H"    -> "types.h"
    [] m = "HAVE_SYS_STAT_H" -> "sys/stat.h"
    [] m = "HAVE_STDLIB_H"   -> "stdlib.h"
    [] m = "HAVE_STRING_H"   -> "string.h"
    [] m = "HAVE_MEMORY_H"   -> "memory.h"

\* The macro table c with flag m defined if it was not and undefined if it was.
Toggle(c, m) == [c EXCEPT ![m] = IF @ = <<>> THEN <<1>> ELSE <<>>]

\* The headers the header includes when entered with macro table c.
IncludedWith(c) == HeaderSet(Run(c).included)

\* C2: without NO_CONFIG each feature-guarded header is included iff its
\* feature macro is defined (sys/types.h: HAVE_SYSTYPES_H, the macro the
\* header tests), and flipping one feature macro flips the inclusion of its
\* own header and of no other header.
C2_FeatureGuards ==
  (pc = Done /\ ~OnEntry("NO_CONFIG")) =>
    \A m \in FeatureMacros :
      /\ Has(FeatureHeader(m)) <=> OnEntry(m)
      /\ \A h \in Headers :
           (h \in IncludedWith(Toggle(entry, m))) <=>
             IF h = FeatureHeader(m) THEN ~Has(h) ELSE Has(h)

C2_Witness ==
  /\ pc = Done /\ ~OnEntry("NO_CONFIG")
  /\ OnEntry("HAVE_UNISTD_H") /\ Has("unistd.h")
  /\ OnEntry("HAVE_SYSTYPES_H") /\ Has("sys/types.h")
  /\ ~OnEntry("HAVE_STDLIB_H") /\ ~Has("stdlib.h")
  /\ ~OnEntry("HAVE_SYS_STAT_H") /\ ~Has("sys/stat.h")

\* The headers included in every configuration, and those included in some
\* configuration but not in all.
AlwaysIncluded == { h \in Headers : \A c \in Configs : h \in IncludedWith(c) }

ConditionallyIncluded ==
  { h \in Headers \ AlwaysIncluded : \E c \in Configs : h \in IncludedWith(c) }

\* C3 as stated: every header compat.h includes, gc/gc.h and the
\* standard-library headers alike, is conditional: some configuration
\* includes it and some configuration leaves it out.
C3_Original ==
  pc = Done => \A h \in HeaderSet(included) : h \in ConditionallyIncluded

UnconditionalHeaders == { "gc/gc.h", "ctype.h", "stdio.h", "fcntl.h" }

\* C3: gc/gc.h, ctype.h, stdio.h and fcntl.h are included in every
\* configuration; each other header compat.h names is conditional on
\* build-time macros: some configuration includes it and some leaves it out.
C3_Conditional ==
  pc = Done =>
    /\ \A h \in UnconditionalHeaders : Has(h)
    /\ AlwaysIncluded = UnconditionalHeaders
    /\ ConditionallyIncluded = Headers \ UnconditionalHeaders

C3_Witness ==
  /\ pc = Done /\ ~OnEntry("NO_CONFIG")
  /\ \A m \in FeatureMacros : ~OnEntry(m)
  /\ ~OnEntry("__STDC__")
  /\ included = << "gc/gc.h", "ctype.h", "stdio.h", "fcntl.h", "varargs.h" >>

\* The macro table c with NO_CONFIG defined.
WithNoConfig(c) == [c EXCEPT !["NO_CONFIG"] = <<1>>]

\* NO_CONFIG undefined, __STDC__ defined, HAVE_TYPES_H undefined and every
\* other feature macro defined.
FullyFeatured ==
  /\ ~OnEntry("NO_CONFIG") /\ OnEntry("__STDC__") /\ ~OnEntry("HAVE_TYPES_H")
  /\ \A m \in FeatureMacros \ {"HAVE_TYPES_H"} : OnEntry(m)

Before(seq, a, b) ==
  \E i, j \in 1..Len(seq) : i < j /\ seq[i] = a /\ seq[j] = b

\* C9 as stated: on a fully-featured standard platform the configured
\* branch includes the same headers in the same order as NO_CONFIG does, and
\* with __STDC__ the configured headers other than types.h are a subset of
\* the NO_CONFIG ones.
C9_Original ==
  /\ (pc = Done /\ FullyFeatured) =>
       included = Run(WithNoConfig(entry)).included
  /\ (pc = Done /\ ~OnEntry("NO_CONFIG") /\ OnEntry("__STDC__")) =>
       (HeaderSet(included) \ {"types.h"}) \subseteq IncludedWith(WithNoConfig(entry))

\* C9: on a fully-featured standard platform the configured branch includes
\* the same set of headers as NO_CONFIG does, each once, but not in the same
\* order (ctype.h comes before memory.h in the configured branch and after
\* it under NO_CONFIG, the rest is in the same order); and with __STDC__ the
\* configured headers other than types.h are a subset of the NO_CONFIG ones.
C9_SameHeaders ==
  /\ (pc = Done /\ FullyFeatured) =>
       LET other == Run(WithNoConfig(entry)).included
           Rest(seq) == SelectSeq(seq, LAMBDA h : h # "ctype.h")
       IN  /\ HeaderSet(included) = HeaderSet(other)
           /\ Len(included) = Len(other)
           /\ Len(included) = Cardinality(HeaderSet(included))
           /\ Before(included, "ctype.h", "memory.h")
           /\ Before(other, "memory.h", "ctype.h")
           /\ Rest(included) = Rest(other)
  /\ (pc = Done /\ ~OnEntry("NO_CONFIG") /\ OnEntry("__STDC__")) =>
       (HeaderSet(included) \ {"types.h"}) \subseteq IncludedWith(WithNoConfig(entry))

C9_Witness ==
  /\ pc = Done /\ FullyFeatured
  /\ Has("memory.h") /\ Has("stdarg.h") /\ ~Has("types.h")
  /\ Len(included) = 11

====
